---- MODULE Spec2Model ----
(***************************************************************************)
(* Model of globe-cli (src/globe-cli/src/main.rs): the argument dispatch   *)
(* of main, and the two render loops start_interactive and                 *)
(* start_screensaver with the terminal session they open and close.        *)
(*                                                                         *)
(* Units.  cam_zoom, cam_xy and cam_z are counted in tenths (the code      *)
(* moves them in steps of 0.1, so 1.5 is 15); globe.angle is counted in    *)
(* units of PI/150 (PI/30 is 5 units, PI/50 is 3 units, PI is 150 units).  *)
(* Terminal dimensions are u16 values; their products wrap modulo 2^16 in  *)
(* a build without overflow checks and panic in a build with them.         *)
(*                                                                         *)
(* Environment.  The calls whose failure is modelled are                   *)
(* crossterm::terminal::size, poll and read (each is unwrapped, so each    *)
(* failure is a panic).  The raw-mode toggles and the writes to stdout are *)
(* taken to succeed.                                                       *)
(***************************************************************************)
EXTENDS Integers, Sequences, FiniteSets, TLC

\* ------------------------------------------------------------------ bounds
\* small terminal dimensions are 1..MaxDim
MaxDim == 2
\* mouse coordinates are 0..MaxCoord
MaxCoord == 1
\* cam_zoom is explored within MaxZoomDev tenths of its initial value
MaxZoomDev == 1
\* globe.angle is explored within MaxAngleDev units of 0 and of PI
MaxAngleDev == 6
\* at most MaxArrivals events enter the input queue
MaxArrivals == 3

\* --------------------------------------------------------- program constants
U16 == 65536
ZMax == 15
ZMin == -15
ZStep == 1
ZoomStep == 1
ZoomInit == 20
KeyAngleStep == 5
DragAngleStep == 5
SpinStep == 3
Pi == 150
CellWidth == 4
CellHeight == 8
\* globe.angle of a freshly built Globe
GlobeBuildAngle == 0

VARIABLES
    argI, argS,        \* the -i and -s flags of the command line
    mode,              \* which loop main started: "none", "interactive", "screensaver"
    pc,                \* "main", "Start", "Running", "Exiting", "Done", "Aborted"
    rawMode, cursorVisible, blinking, mouseCapture,   \* the terminal session
    term_size,         \* <<columns, rows>>
    canvas,            \* <<width, height>> of the current Canvas
    cam_zoom, cam_xy, cam_z,
    angle,             \* globe.angle
    camera,            \* globe.camera = <<zoom, xy, z>>
    last_drag_pos,     \* <<>> for None, <<x, y>> for Some((x, y))
    lastEv,            \* the event consumed by the last tick, NoEvent if none
    frame,             \* <<>> or <<f>>: the frame streamed by the last tick
    queue,             \* the terminal's input queue: events not yet read
    arrived,           \* every event that entered the queue, in arrival order
    applied            \* every event read from the queue, in reading order

vars == <<argI, argS, mode, pc, rawMode, cursorVisible, blinking, mouseCapture,
          term_size, canvas, cam_zoom, cam_xy, cam_z, angle, camera,
          last_drag_pos, lastEv, frame, queue, arrived, applied>>

\* the input queue and its history; Spec lets the terminal hand any event to
\* any tick and keeps them empty, SpecQ feeds the ticks from the queue
qvars == <<queue, arrived, applied>>

session == <<rawMode, cursorVisible, blinking, mouseCapture>>
args == <<argI, argS, mode>>
cam == <<cam_zoom, cam_xy, cam_z, angle, camera>>

\* ------------------------------------------------------------------ events
KeyCodes == {"Char", "PageUp", "PageDown", "Up", "Down", "Left", "Right",
             "Enter", "Esc"}
OtherMouseKinds == {"ScrollUp", "ScrollDown", "Down", "Up"}
Dims == 1..MaxDim
\* terminal sizes whose canvas side exceeds a u16 (landscape, portrait), and
\* a terminal more than twice as wide as it is tall
BigSizes == {<<16385, 8193>>, <<16385, 16385>>, <<16385, 1>>}
\* a landscape terminal less than twice as wide as it is tall
SquatSizes == {<<3, 2>>}
TermSizes == (Dims \X Dims) \cup BigSizes \cup SquatSizes
Coords == 0..MaxCoord

NoEvent == [type |-> "None"]
Key(code) == [type |-> "Key", code |-> code]
Drag(x, y) == [type |-> "Mouse", kind |-> "Drag", x |-> x, y |-> y]
Mouse(kind) == [type |-> "Mouse", kind |-> kind]
Resize(w, h) == [type |-> "Resize", width |-> w, height |-> h]

KeyEvents == {Key(c) : c \in KeyCodes}
MouseEvents == {Drag(x, y) : x \in Coords, y \in Coords}
               \cup {Mouse(k) : k \in OtherMouseKinds}
ResizeEvents == {Resize(s[1], s[2]) : s \in TermSizes}
Events == KeyEvents \cup MouseEvents \cup ResizeEvents

IsKey(ev) == ev.type = "Key"
IsMouse(ev) == ev.type = "Mouse"
IsDrag(ev) == ev.type = "Mouse" /\ ev.kind = "Drag"
IsResize(ev) == ev.type = "Resize"

\* ------------------------------------------------------------ canvas sizing
\* Canvas::new(width, height, None) of the globe crate: a buffer of that size
Canvas_new(width, height) == <<width, height>>

\* canvas.get_size()
get_size(c) == <<c[1], c[2]>>

\* CanvasSide with the landscape arm scaled by the cell width
CanvasSide_Narrow(cols, rows) ==
    IF cols > rows THEN rows * CellWidth ELSE cols * CellWidth

\* the product the sizing expression computes, before it is stored in a u16
CanvasSide(cols, rows) ==
    IF cols > rows THEN rows * CellHeight ELSE cols * CellWidth

\* the u16 multiplication overflows
Overflows(cols, rows) == CanvasSide(cols, rows) >= U16

\* the canvas built for a terminal of cols x rows (wrapping arithmetic)
CanvasFor(cols, rows) ==
    Canvas_new(CanvasSide(cols, rows) % U16, CanvasSide(cols, rows) % U16)

\* ----------------------------------------------------------- input routing
\* the hard-coded coordinate the Enter key focuses on
FocusCoord == <<0, 0>>

\* cam_zoom after a key event
KeyZoom(code, zoom) ==
    CASE code = "PageUp" -> zoom + ZoomStep
      [] code = "PageDown" -> zoom - ZoomStep
      [] OTHER -> zoom

\* KeyZ with the unguarded second Down arm of the match taken
KeyZ_SecondDownArm(code, z) ==
    CASE code = "Up" -> IF z < ZMax THEN z + ZStep ELSE z
      [] code = "Down" -> z - ZStep
      [] code = "Enter" -> FocusCoord[2] * 30 - 15
      [] OTHER -> z

\* cam_z after a key event
KeyZ(code, z) ==
    CASE code = "Up" -> IF z < ZMax THEN z + ZStep ELSE z
      [] code = "Down" -> IF z > ZMin THEN z - ZStep ELSE z
      [] code = "Enter" -> FocusCoord[2] * 30 - 15
      [] OTHER -> z

\* KeyAngle with Enter turning the globe by PI instead of setting it to PI
KeyAngle_RelativeFocus(code, a) ==
    CASE code = "Left" -> a + KeyAngleStep
      [] code = "Right" -> a - KeyAngleStep
      [] code = "Enter" -> a + FocusCoord[1] * (Pi * 2) + Pi
      [] OTHER -> a

\* globe.angle after a key event
KeyAngle(code, a) ==
    CASE code = "Left" -> a + KeyAngleStep
      [] code = "Right" -> a - KeyAngleStep
      [] code = "Enter" -> FocusCoord[1] * (Pi * 2) + Pi
      [] OTHER -> a

\* cam_z after a drag whose vertical delta is y_diff
DragZ(y_diff, z) ==
    IF y_diff > 0 /\ z < ZMax THEN z + ZStep
    ELSE IF y_diff < 0 /\ z > ZMin THEN z - ZStep
    ELSE z

\* DragAngle without the vertical term
DragAngle_XOnly(x_diff, y_diff, a) ==
    a + x_diff * DragAngleStep

\* globe.angle after a drag with deltas x_diff, y_diff
DragAngle(x_diff, y_diff, a) ==
    (a + x_diff * DragAngleStep) + y_diff * DragAngleStep

\* cam_zoom after a mouse event
MouseZoom(ev, zoom) ==
    CASE ev.kind = "ScrollUp" -> zoom - ZoomStep
      [] ev.kind = "ScrollDown" -> zoom + ZoomStep
      [] OTHER -> zoom

\* cam_z after a mouse event
MouseZ(ev, last, z) ==
    IF ev.kind = "Drag" /\ last # <<>> THEN DragZ(ev.y - last[2], z) ELSE z

\* globe.angle after a mouse event
MouseAngle(ev, last, a) ==
    IF ev.kind = "Drag" /\ last # <<>>
    THEN DragAngle(ev.x - last[1], ev.y - last[2], a)
    ELSE a

\* MouseDragPos with the catch-all arm keeping the stored position
MouseDragPos_NoReset(ev, last) ==
    CASE ev.kind = "Drag" -> <<ev.x, ev.y>>
      [] OTHER -> last

\* last_drag_pos after a mouse event
MouseDragPos(ev, last) ==
    CASE ev.kind = "Drag" -> <<ev.x, ev.y>>
      [] ev.kind \in {"ScrollUp", "ScrollDown"} -> last
      [] OTHER -> <<>>

\* the values the explored state space keeps (guards of the actions)
ZoomInRange(zoom) ==
    zoom >= ZoomInit - MaxZoomDev /\ zoom <= ZoomInit + MaxZoomDev
AngleInRange(a) ==
    \/ a >= GlobeBuildAngle - MaxAngleDev /\ a <= GlobeBuildAngle + MaxAngleDev
    \/ a >= Pi - MaxAngleDev /\ a <= Pi + MaxAngleDev

\* ---------------------------------------------------------------- rendering
\* Render run before the event of the tick is applied
Render_Stale(c, ts, zoom, xy, z, a) ==
    LET sizex == get_size(canvas)[1]
        sizey == get_size(canvas)[2]
    IN  [camera |-> <<cam_zoom, cam_xy, cam_z>>,
         angle |-> angle,
         glyph_rows |-> sizey \div CellHeight,
         glyph_cols |-> sizex \div CellWidth,
         recentre |-> (term_size[1] \div 2 > term_size[2]),
         cursor_col |-> IF term_size[1] \div 2 > term_size[2]
                        THEN (sizex \div 8) - ((sizex \div 8) \div 4)
                        ELSE 0]

\* one frame: the camera and angle it was rendered from, the glyph rows and
\* glyphs per row streamed, and the column the cursor is moved to afterwards
Render(c, ts, zoom, xy, z, a) ==
    LET sizex == get_size(c)[1]
        sizey == get_size(c)[2]
    IN  [camera |-> <<zoom, xy, z>>,
         angle |-> a,
         glyph_rows |-> sizey \div CellHeight,
         glyph_cols |-> sizex \div CellWidth,
         recentre |-> (ts[1] \div 2 > ts[2]),
         cursor_col |-> IF ts[1] \div 2 > ts[2]
                        THEN (sizex \div 8) - ((sizex \div 8) \div 4)
                        ELSE 0]

\* ------------------------------------------------------------------- state
Init ==
    /\ argI \in BOOLEAN
    /\ argS \in BOOLEAN
    /\ mode = "none"
    /\ pc = "main"
    /\ rawMode = FALSE
    /\ cursorVisible \in BOOLEAN
    /\ blinking \in BOOLEAN
    /\ mouseCapture = FALSE
    /\ term_size = <<0, 0>>
    /\ canvas = <<0, 0>>
    /\ cam_zoom = ZoomInit
    /\ cam_xy = 0
    /\ cam_z = 0
    /\ angle = GlobeBuildAngle
    /\ camera = <<ZoomInit, 0, 0>>
    /\ last_drag_pos = <<>>
    /\ lastEv = NoEvent
    /\ frame = <<>>
    /\ queue = <<>>
    /\ arrived = <<>>
    /\ applied = <<>>

\* main with the two branches of the dispatch in the other order
main_ScreensaverFirst ==
    /\ pc = "main"
    /\ mode' = IF argS THEN "screensaver"
               ELSE IF argI THEN "interactive" ELSE "none"
    /\ pc' = IF argI \/ argS THEN "Start" ELSE "Done"
    /\ UNCHANGED <<qvars, argI, argS, session, term_size, canvas, cam,
                   last_drag_pos, lastEv, frame>>

\* main: -i starts the interactive loop, otherwise -s the screensaver loop;
\* with neither flag the help text is printed and the process exits
main ==
    /\ pc = "main"
    /\ mode' = IF argI THEN "interactive"
               ELSE IF argS THEN "screensaver" ELSE "none"
    /\ pc' = IF argI \/ argS THEN "Start" ELSE "Done"
    /\ UNCHANGED <<qvars, argI, argS, session, term_size, canvas, cam,
                   last_drag_pos, lastEv, frame>>

\* OpenSession with the mouse captured in both loops
OpenSession_AlwaysMouse ==
    /\ rawMode' = TRUE
    /\ cursorVisible' = FALSE
    /\ blinking' = FALSE
    /\ mouseCapture' = TRUE

\* the terminal session a loop opens before it queries the terminal size
OpenSession ==
    /\ rawMode' = TRUE
    /\ cursorVisible' = FALSE
    /\ blinking' = FALSE
    /\ mouseCapture' = (mode = "interactive")

\* start_interactive / start_screensaver up to the loop: the session is
\* opened, the terminal size is size and the canvas and camera are built
Startup(size) ==
    /\ pc = "Start"
    /\ OpenSession
    /\ term_size' = size
    /\ \/ /\ canvas' = CanvasFor(size[1], size[2])
          /\ cam_zoom' = ZoomInit
          /\ cam_xy' = 0
          /\ cam_z' = 0
          /\ camera' = <<ZoomInit, 0, 0>>
          /\ pc' = "Running"
       \/ /\ Overflows(size[1], size[2])
          /\ pc' = "Aborted"
          /\ UNCHANGED <<canvas, cam_zoom, cam_xy, cam_z, camera>>
    /\ UNCHANGED <<qvars, args, angle, last_drag_pos, lastEv, frame>>

\* crossterm::terminal::size() fails: the unwrap panics
StartupSizeFails ==
    /\ pc = "Start"
    /\ OpenSession
    /\ pc' = "Aborted"
    /\ UNCHANGED <<qvars, args, term_size, canvas, cam, last_drag_pos, lastEv, frame>>

\* PollOrReadFails with the session restored on the way out
PollOrReadFails_Restoring ==
    /\ pc = "Running"
    /\ pc' = "Aborted"
    /\ lastEv' = NoEvent
    /\ frame' = <<>>
    /\ rawMode' = FALSE
    /\ cursorVisible' = TRUE
    /\ blinking' = TRUE
    /\ mouseCapture' = FALSE
    /\ UNCHANGED <<qvars, args, term_size, canvas, cam, last_drag_pos>>

\* poll or read fails inside the loop: the unwrap panics
PollOrReadFails ==
    /\ pc = "Running"
    /\ pc' = "Aborted"
    /\ lastEv' = NoEvent
    /\ frame' = <<>>
    /\ UNCHANGED <<qvars, args, session, term_size, canvas, cam, last_drag_pos>>

\* the values one pass of the interactive match leaves in the loop's locals
InteractiveZoom(ev, zoom) ==
    IF IsKey(ev) THEN KeyZoom(ev.code, zoom)
    ELSE IF IsMouse(ev) THEN MouseZoom(ev, zoom) ELSE zoom
InteractiveZ(ev, last, z) ==
    IF IsKey(ev) THEN KeyZ(ev.code, z)
    ELSE IF IsMouse(ev) THEN MouseZ(ev, last, z) ELSE z
InteractiveAngle(ev, last, a) ==
    IF IsKey(ev) THEN KeyAngle(ev.code, a)
    ELSE IF IsMouse(ev) THEN MouseAngle(ev, last, a) ELSE a
InteractiveDragPos_KeysReset(ev, last) ==
    IF IsMouse(ev) THEN MouseDragPos(ev, last)
    ELSE IF IsKey(ev) THEN <<>> ELSE last
InteractiveDragPos(ev, last) ==
    IF IsMouse(ev) THEN MouseDragPos(ev, last) ELSE last

\* InteractiveBreaks with Esc quitting as well
InteractiveBreaks_Esc(ev) == IsKey(ev) /\ ev.code \in {"Char", "Esc"}

\* the key events that break out of the interactive loop
InteractiveBreaks(ev) == IsKey(ev) /\ ev.code = "Char"

\* ScreensaverBreaks with every key quitting
ScreensaverBreaks_AnyKey(ev) == IsKey(ev)

\* the key events that break out of the screensaver loop
ScreensaverBreaks(ev) == IsKey(ev) /\ ev.code = "Char"

\* Spin turning the other way
Spin_Forward(a) == a + SpinStep

\* the screensaver's rotation step: globe.angle += -1. * PI / 50.
Spin(a) == a - SpinStep

\* the Resize arm, shared by both loops: term_size is stored, then the canvas
\* is rebuilt; an overflowing product panics in a build with overflow checks
\* and wraps in a build without them
ResizeArm(ev) ==
    IF IsResize(ev)
    THEN /\ term_size' = <<ev.width, ev.height>>
         /\ \/ /\ canvas' = CanvasFor(ev.width, ev.height)
               /\ pc' = "Running"
            \/ /\ Overflows(ev.width, ev.height)
               /\ canvas' = canvas
               /\ pc' = "Aborted"
    ELSE /\ UNCHANGED <<term_size, canvas>>
         /\ pc' = "Running"

\* one iteration of the loop of start_interactive; ev is the event poll and
\* read deliver, NoEvent when poll times out
InteractiveTick(ev) ==
    /\ pc = "Running"
    /\ mode = "interactive"
    /\ lastEv' = ev
    /\ IF InteractiveBreaks(ev)
       THEN /\ pc' = "Exiting"
            /\ frame' = <<>>
            /\ UNCHANGED <<term_size, canvas, cam, last_drag_pos>>
       ELSE /\ cam_zoom' = InteractiveZoom(ev, cam_zoom)
            /\ cam_z' = InteractiveZ(ev, last_drag_pos, cam_z)
            /\ angle' = InteractiveAngle(ev, last_drag_pos, angle)
            /\ last_drag_pos' = InteractiveDragPos(ev, last_drag_pos)
            /\ cam_xy' = cam_xy
            /\ ZoomInRange(cam_zoom')
            /\ AngleInRange(angle')
            /\ ResizeArm(ev)
            /\ IF pc' = "Running"
               THEN /\ camera' = <<cam_zoom', cam_xy', cam_z'>>
                    /\ frame' = <<Render(canvas', term_size', cam_zoom',
                                         cam_xy', cam_z', angle')>>
               ELSE /\ camera' = camera
                    /\ frame' = <<>>
    /\ UNCHANGED <<args, session>>

\* one iteration of the loop of start_screensaver
ScreensaverTick(ev) ==
    /\ pc = "Running"
    /\ mode = "screensaver"
    /\ lastEv' = ev
    /\ IF ScreensaverBreaks(ev)
       THEN /\ pc' = "Exiting"
            /\ frame' = <<>>
            /\ UNCHANGED <<term_size, canvas, cam, last_drag_pos>>
       ELSE /\ ResizeArm(ev)
            /\ IF pc' = "Running"
               THEN /\ angle' = Spin(angle)
                    /\ AngleInRange(angle')
                    /\ camera' = <<cam_zoom, cam_xy, cam_z>>
                    /\ frame' = <<Render(canvas', term_size', cam_zoom,
                                         cam_xy, cam_z, angle')>>
               ELSE /\ UNCHANGED <<angle, camera>>
                    /\ frame' = <<>>
            /\ UNCHANGED <<cam_zoom, cam_xy, cam_z, last_drag_pos>>
    /\ UNCHANGED <<args, session>>

\* Restore without the DisableMouseCapture command
Restore_KeepsMouseCapture ==
    /\ pc = "Exiting"
    /\ cursorVisible' = TRUE
    /\ blinking' = TRUE
    /\ mouseCapture' = mouseCapture
    /\ rawMode' = FALSE
    /\ pc' = "Done"
    /\ UNCHANGED <<qvars, args, term_size, canvas, cam, last_drag_pos, lastEv, frame>>

\* the code after the loop: the cursor is shown, blinking is enabled, mouse
\* capture is disabled (interactive) and raw mode is disabled
Restore ==
    /\ pc = "Exiting"
    /\ cursorVisible' = TRUE
    /\ blinking' = TRUE
    /\ mouseCapture' = IF mode = "interactive" THEN FALSE ELSE mouseCapture
    /\ rawMode' = FALSE
    /\ pc' = "Done"
    /\ UNCHANGED <<qvars, args, term_size, canvas, cam, last_drag_pos, lastEv, frame>>

\* a tick whose event is whatever the terminal delivers at that moment
DirectInteractiveTick(ev) == InteractiveTick(ev) /\ UNCHANGED qvars
DirectScreensaverTick(ev) == ScreensaverTick(ev) /\ UNCHANGED qvars

Next ==
    \/ main
    \/ \E size \in TermSizes : Startup(size)
    \/ StartupSizeFails
    \/ PollOrReadFails
    \/ \E ev \in Events \cup {NoEvent} : DirectInteractiveTick(ev)
    \/ \E ev \in Events \cup {NoEvent} : DirectScreensaverTick(ev)
    \/ Restore

Spec == Init /\ [][Next]_vars

\* ------------------------------------------------------------- input queue
\* the events that arrive in the queue-fed specification
QEvents == {Key("Char"), Key("Up"), Key("Esc"), Drag(0, 1), Mouse("ScrollUp"),
            Resize(1, 1), Resize(16385, 8193)}

\* an event enters the terminal's input queue while the loop runs
Arrive(e) ==
    /\ pc = "Running"
    /\ Len(arrived) < MaxArrivals
    /\ queue' = Append(queue, e)
    /\ arrived' = Append(arrived, e)
    /\ UNCHANGED <<applied, args, session, pc, term_size, canvas, cam,
                   last_drag_pos, lastEv, frame>>

\* what poll and read hand to the tick: the oldest queued event, NoEvent when
\* the queue is empty and poll times out
Poll(q) == IF q = <<>> THEN NoEvent ELSE Head(q)

\* ReadQueue reading until the queue is empty
ReadQueue_Drain(q) == <<>>

\* the queue after the tick's single read
ReadQueue(q) == IF q = <<>> THEN q ELSE Tail(q)

\* the bookkeeping of one tick's poll and read
Consume ==
    /\ queue' = ReadQueue(queue)
    /\ applied' = IF queue = <<>> THEN applied ELSE Append(applied, Head(queue))
    /\ arrived' = arrived

\* a tick fed from the input queue
QueueInteractiveTick == InteractiveTick(Poll(queue)) /\ Consume
QueueScreensaverTick == ScreensaverTick(Poll(queue)) /\ Consume

NextQ ==
    \/ main
    \/ \E size \in TermSizes : Startup(size)
    \/ StartupSizeFails
    \/ PollOrReadFails
    \/ \E e \in QEvents : Arrive(e)
    \/ QueueInteractiveTick
    \/ QueueScreensaverTick
    \/ Restore

SpecQ == Init /\ [][NextQ]_vars

\* ------------------------------------------------------------------ claims
\* the loop of start_interactive / start_screensaver is executing or was left
\* through break: the canvas and the loop's locals exist
InLoop(m) == mode = m /\ pc \in {"Running", "Exiting", "Done"}

\* C1: in interactive mode cam_z lies in [-1.5, 1.5] in every reachable state,
\* whatever sequence of keys, drags and other events was consumed.
C1_ZWithinBounds ==
    mode = "interactive" => (cam_z >= -15 /\ cam_z <= 15)

\* C1 witness: an Up key was consumed and cam_z sits at the upper limit
C1_Witness ==
    /\ mode = "interactive" /\ pc = "Running"
    /\ lastEv = Key("Up") /\ cam_z = 15

\* C2 as stated: after any mouse event that is not a drag, scrolls included,
\* the stored drag position is None.
C2_Original ==
    (mode = "interactive" /\ pc = "Running"
        /\ IsMouse(lastEv) /\ ~IsDrag(lastEv)) => last_drag_pos = <<>>

\* C2 amended: a button press or release resets the stored drag position to
\* None; ScrollUp and ScrollDown leave it as it was, so that a drag that comes
\* right after a scroll is diffed against the position stored before the scroll.
C2_ScrollKeepsDragPos ==
    [][ /\ (pc = "Running" /\ mode = "interactive"
              /\ IsMouse(lastEv') /\ ~IsDrag(lastEv'))
           => IF lastEv'.kind \in {"ScrollUp", "ScrollDown"}
              THEN last_drag_pos' = last_drag_pos
              ELSE last_drag_pos' = <<>>
        /\ (pc = "Running" /\ mode = "interactive" /\ IsDrag(lastEv')
              /\ IsMouse(lastEv) /\ ~IsDrag(lastEv)
              /\ lastEv.kind \in {"ScrollUp", "ScrollDown"}
              /\ last_drag_pos # <<>>)
           => angle' = angle + ((lastEv'.x - last_drag_pos[1])
                                + (lastEv'.y - last_drag_pos[2])) * 5
      ]_vars

\* C2 witness: a scroll was consumed and a drag position is still stored
C2_Witness ==
    /\ mode = "interactive" /\ pc = "Running"
    /\ lastEv = Mouse("ScrollUp") /\ last_drag_pos # <<>>

\* C3 as stated: the canvas is square, its width is divisible by 4 and its
\* height by 8, for every terminal size, at startup and after every Resize.
C3_Original ==
    (InLoop("interactive") \/ InLoop("screensaver"))
        => /\ canvas[1] = canvas[2]
           /\ canvas[1] % 4 = 0
           /\ canvas[2] % 8 = 0

\* C3 amended: the canvas is square and both its sides are divisible by 4; its
\* height is divisible by 8 exactly when the terminal is landscape
\* (cols > rows) or has an even number of columns.
C3_CanvasShape ==
    (InLoop("interactive") \/ InLoop("screensaver"))
        => /\ canvas[1] = canvas[2]
           /\ canvas[1] % 4 = 0
           /\ canvas[2] % 4 = 0
           /\ (canvas[2] % 8 = 0) <=>
                 (term_size[1] > term_size[2] \/ term_size[1] % 2 = 0)

\* C3 witness: a Resize to a portrait terminal with an odd column count built
\* a canvas whose height is no multiple of 8
C3_Witness ==
    /\ pc = "Running" /\ IsResize(lastEv)
    /\ term_size[1] <= term_size[2] /\ canvas[2] % 8 = 4

\* C4: a tick that consumes a character key leaves Running at once, the only
\* step after it is the restoration, and the state the loop function returns
\* in has the cursor visible, blinking enabled, raw mode and mouse capture off.
C4_CharKeyRestores ==
    [][ /\ (pc = "Running" /\ IsKey(lastEv') /\ lastEv'.code = "Char")
           => pc' = "Exiting"
        /\ pc = "Exiting" => pc' = "Done"
        /\ (pc' = "Done" /\ mode' # "none")
           => (cursorVisible' /\ blinking' /\ ~rawMode' /\ ~mouseCapture')
      ]_vars

\* C4 witness: the interactive loop was left by a character key while a drag
\* was in progress and the camera was at its upper limit, and has returned
C4_Witness ==
    /\ mode = "interactive" /\ pc = "Done" /\ lastEv = Key("Char")
    /\ last_drag_pos # <<>> /\ cam_z = 15

\* C5 as stated: in screensaver mode no key event, whatever its code, leaves
\* the loop running.
C5_Original ==
    (mode = "screensaver" /\ IsKey(lastEv)) => pc # "Running"

\* C5 amended: in screensaver mode a consumed key event terminates the loop
\* exactly when its key code is a character; every other key is ignored.
C5_OnlyCharKeyExits ==
    (mode = "screensaver" /\ IsKey(lastEv))
        => IF lastEv.code = "Char"
           THEN pc \in {"Exiting", "Done"}
           ELSE pc = "Running"

\* C5 witness: the screensaver consumed Esc and is still running
C5_Witness ==
    mode = "screensaver" /\ pc = "Running" /\ lastEv = Key("Esc")

C7_Original ==
    [][ /\ (pc = "Running" /\ IsResize(lastEv'))
           => LET w == lastEv'.width
                  h == lastEv'.height
                  side == IF w > h THEN h * 8 ELSE w * 4
              IN  /\ term_size' = <<w, h>>
                  /\ canvas' = <<side, side>>
                  /\ pc' = "Running"
                  /\ frame' # <<>>
                  /\ frame'[1].glyph_cols = side \div 4
                  /\ frame'[1].glyph_rows = side \div 8
                  /\ cam_zoom' = cam_zoom
                  /\ cam_xy' = cam_xy
                  /\ cam_z' = cam_z
        /\ (pc = "Running" /\ pc' = "Running" /\ ~IsResize(lastEv'))
           => (canvas' = canvas /\ term_size' = term_size)
      ]_vars

\* C8: a tick of the interactive loop that consumes Enter sets cam_z to -1.5
\* and globe.angle to PI and changes neither zoom, xy nor the drag position.
C8_EnterFocuses ==
    [][ (mode = "interactive" /\ pc = "Running" /\ lastEv' = Key("Enter"))
           => /\ cam_z' = -15
              /\ angle' = Pi
              /\ cam_zoom' = cam_zoom
              /\ cam_xy' = cam_xy
              /\ last_drag_pos' = last_drag_pos
      ]_vars

\* C8 witness: Enter was consumed with a drag in progress and the zoom changed
C8_Witness ==
    /\ mode = "interactive" /\ pc = "Running" /\ lastEv = Key("Enter")
    /\ last_drag_pos # <<>> /\ cam_zoom # ZoomInit

\* C9: every tick of the screensaver loop that stays in Running lowers
\* globe.angle by exactly PI/50, idle or not.
C9_SpinEveryTick ==
    [][ (mode = "screensaver" /\ pc = "Running" /\ pc' = "Running")
           => angle' = angle - 3 ]_vars

\* C9 witness: the screensaver has spun twice and its last tick ignored a
\* mouse event
C9_Witness ==
    /\ mode = "screensaver" /\ pc = "Running"
    /\ angle <= (0 - 3) - 3 /\ IsMouse(lastEv)

\* C10: wherever the process aborts, no restoration step has run: raw mode is
\* enabled, the cursor is hidden and (interactive mode) the mouse is captured.
C10_AbortLeavesSession ==
    pc = "Aborted"
        => /\ rawMode
           /\ ~cursorVisible
           /\ mode = "interactive" => mouseCapture

\* C10 witness: poll or read failed inside the interactive loop
C10_Witness ==
    /\ mode = "interactive" /\ pc = "Aborted"
    /\ term_size \in Dims \X Dims /\ last_drag_pos # <<>>

\* C11: with -i and -s only the interactive loop is started, with -s alone
\* only the screensaver loop; once main has dispatched, no loop is started
\* again and the running loop is never exchanged for the other.
C11_InteractiveFirst ==
    [][ /\ (pc = "main" /\ argI /\ argS)
           => (mode' = "interactive" /\ pc' = "Start")
        /\ (pc = "main" /\ ~argI /\ argS)
           => (mode' = "screensaver" /\ pc' = "Start")
        /\ pc # "main"
           => (mode' = mode /\ pc' # "main" /\ (pc' = "Start" => pc = "Start"))
        /\ (argI' = argI /\ argS' = argS)
      ]_vars

\* C11 witness: both flags were given and the interactive loop has run and
\* returned
C11_Witness ==
    /\ argI /\ argS /\ mode = "interactive" /\ pc = "Done"
    /\ lastEv = Key("Char")

\* C12: a tick that consumes Drag(x, y) with a stored position (xl, yl) adds
\* ((x - xl) + (y - yl)) * PI/30 to globe.angle, moves cam_z one step up if
\* y > yl and cam_z < 1.5, one step down if y < yl and cam_z > -1.5, and stores
\* (x, y); without a stored position it only stores (x, y).  cam_zoom is kept.
C12_DragDiffsAgainstStored ==
    [][ (mode = "interactive" /\ pc = "Running" /\ IsDrag(lastEv'))
           => LET x == lastEv'.x
                  y == lastEv'.y
              IN  /\ last_drag_pos' = <<x, y>>
                  /\ cam_zoom' = cam_zoom
                  /\ IF last_drag_pos = <<>>
                     THEN cam_z' = cam_z /\ angle' = angle
                     ELSE LET xl == last_drag_pos[1]
                              yl == last_drag_pos[2]
                          IN  /\ angle' = angle + (x - xl) * 5 + (y - yl) * 5
                              /\ cam_z' = IF y > yl /\ cam_z < 15
                                          THEN cam_z + 1
                                          ELSE IF y < yl /\ cam_z > -15
                                          THEN cam_z - 1
                                          ELSE cam_z
      ]_vars

\* C12 witness: a drag that moved down and to the left was consumed at the
\* upper limit of cam_z, after Enter and Left (dx + dy = 0, the angle stays)
C12_Witness ==
    /\ mode = "interactive" /\ pc = "Running"
    /\ lastEv = Drag(0, 1) /\ last_drag_pos = <<0, 1>>
    /\ cam_z = 15 /\ angle = Pi + 5

\* C13: a tick reads at most one event, and it is the oldest one in the queue:
\* the events read so far followed by the events still queued are exactly the
\* events that arrived, in arrival order; a tick that finds the queue
\* non-empty reads exactly one event; after the loop is left nothing is read.
C13_OneEventPerTick ==
    [][ /\ arrived' = applied' \o queue'
        /\ Len(applied') <= Len(applied) + 1
        /\ Len(applied') = Len(applied) + 1
           => /\ applied' = Append(applied, Head(queue))
              /\ queue' = Tail(queue)
              /\ lastEv' = Head(queue)
        /\ (pc = "Running" /\ queue # <<>> /\ arrived' = arrived
              /\ ~(pc' = "Aborted" /\ lastEv' = NoEvent))
           => Len(applied') = Len(applied) + 1
        /\ pc # "Running" => applied' = applied
      ]_vars

\* C13 witness: two ticks have read the first two events and a third waits
C13_Witness ==
    /\ pc = "Running" /\ Len(applied) = 2 /\ queue # <<>>
    /\ applied = SubSeq(arrived, 1, 2)

\* C15 as stated: when poll and read succeed, every tick that finds an event
\* queued removes exactly that event and keeps the loop running unless the
\* event is a character key, which takes the loop to Exiting and from there to
\* the restored final state; so a character key behind n events is reached on
\* tick n + 1.
C15_Original ==
    [][ /\ (pc = "Running" /\ queue # <<>> /\ Len(queue') < Len(queue))
           => /\ queue' = Tail(queue)
              /\ pc' = IF Head(queue) = Key("Char") THEN "Exiting"
                       ELSE "Running"
        /\ pc = "Exiting"
           => /\ pc' = "Done"
              /\ cursorVisible' /\ blinking' /\ ~rawMode' /\ ~mouseCapture'
      ]_vars

C16_ScreensaverCameraFixed ==
    [][ mode' = "screensaver"
           => /\ cam_zoom' = 20
              /\ cam_xy' = 0
              /\ cam_z' = 0
              /\ ~mouseCapture'
              /\ \/ angle' = angle
                 \/ (pc = "Running" /\ pc' = "Running" /\ angle' = angle - 3)
      ]_vars

\* C16 witness: the screensaver has ignored an Up key on its second tick
C16_Witness ==
    /\ mode = "screensaver" /\ pc = "Running"
    /\ lastEv = Key("Up") /\ angle = (0 - 3) - 3

\* C17 as stated: for the terminal size in use, rows*8 (landscape) or cols*4
\* (portrait or square) does not exceed the 16-bit range.
C17_Original ==
    (mode # "none" /\ pc \notin {"main", "Start"} /\ term_size # <<0, 0>>)
        => (IF term_size[1] > term_size[2]
            THEN term_size[2] * 8
            ELSE term_size[1] * 4) <= 65535

\* C18 as stated: the frame a tick streams has at most as many glyph rows as
\* the terminal has rows and at most as many glyphs per row as it has columns.
C18_Original ==
    (pc = "Running" /\ frame # <<>>)
        => /\ frame[1].glyph_rows <= term_size[2]
           /\ frame[1].glyph_cols <= term_size[1]

\* C19: in interactive mode key events, Resize events and idle ticks keep the
\* stored drag position; PageUp/PageDown change only cam_zoom, Left/Right only
\* globe.angle, Up/Down only cam_z; cam_xy is 0 throughout.
C19_FrameOfKeys ==
    [][ (mode = "interactive" /\ pc = "Running")
           => /\ (IsKey(lastEv') \/ IsResize(lastEv') \/ lastEv' = NoEvent)
                 => last_drag_pos' = last_drag_pos
              /\ lastEv' \in {Key("PageUp"), Key("PageDown")}
                 => /\ cam_zoom' = IF lastEv'.code = "PageUp"
                                   THEN cam_zoom + 1 ELSE cam_zoom - 1
                    /\ cam_z' = cam_z /\ angle' = angle
                    /\ canvas' = canvas /\ term_size' = term_size
              /\ lastEv' \in {Key("Left"), Key("Right")}
                 => /\ angle' = IF lastEv'.code = "Left"
                                THEN angle + 5 ELSE angle - 5
                    /\ cam_z' = cam_z /\ cam_zoom' = cam_zoom
                    /\ canvas' = canvas /\ term_size' = term_size
              /\ lastEv' \in {Key("Up"), Key("Down")}
                 => /\ cam_zoom' = cam_zoom /\ angle' = angle
                    /\ canvas' = canvas /\ term_size' = term_size
              /\ cam_xy' = 0
      ]_vars

\* C19 witness: PageUp was consumed while a drag position was stored
C19_Witness ==
    /\ mode = "interactive" /\ pc = "Running" /\ lastEv = Key("PageUp")
    /\ last_drag_pos # <<>> /\ cam_zoom = 21

====
